---------------------------- MODULE Spec2Model ----------------------------
(***************************************************************************)
(* BlusWipe: the FastAPI routes (app/api/routes.py, main.py), the          *)
(* serverless handler (netlify/functions/remove_background.py) and the     *)
(* BackgroundRemover engine (netlify/functions/background_remover.py).     *)
(*                                                                         *)
(* Byte strings and text are sequences of one-character strings, so that   *)
(* prefix tests, substring tests and splitting are computed as Python      *)
(* computes them.  None is Python's None.                                  *)
(***************************************************************************)
EXTENDS Integers, Sequences, FiniteSets, TLC

None == "None"

\* a missing (None) piece of text: no text has this shape
NoText == <<None>>
\* no response sent yet
NoResponse == [status |-> 0]
\* app.state has no background_remover
NoRemover == [model_name |-> None, session |-> None]

(***************************************************************************)
(* Bounds of the model.                                                    *)
(***************************************************************************)
\* the longest list of files submitted to the batch endpoint
MaxFiles == 6
\* the longest filename asked of the download endpoint
MaxNameLen == 3
\* the longest payload put into a multipart body for the parser
MaxPayload == 4
\* the most files in the input folder of BackgroundRemover.batch_process
MaxFolder == 3

(***************************************************************************)
(* Python string / bytes primitives.                                       *)
(***************************************************************************)
\* s.startswith(p)
StartsWith(s, p) ==
    /\ Len(s) >= Len(p)
    /\ SubSeq(s, 1, Len(p)) = p

\* s.endswith(p)
EndsWith(s, p) ==
    /\ Len(s) >= Len(p)
    /\ SubSeq(s, Len(s) - Len(p) + 1, Len(s)) = p

\* s.find(p): the 0-based index of the first occurrence of p in s, -1 if none
Find(s, p) ==
    LET hits == {i \in 0..(Len(s) - Len(p)) : SubSeq(s, i + 1, i + Len(p)) = p}
    IN  IF hits = {} THEN -1
        ELSE CHOOSE i \in hits : \A j \in hits : i <= j

\* p in s
Contains(s, p) == Find(s, p) # -1

\* all sequences over alphabet of length at most n
SeqsUpTo(alphabet, n) == UNION {[1..k -> alphabet] : k \in 0..n}

(***************************************************************************)
(* The web server: main.py and app/api/routes.py.                          *)
(***************************************************************************)
VARIABLES
    server,       \* "starting" | "serving" | "failed": the lifespan of main.py
    app_remover,  \* app.state.background_remover: NoRemover or [model_name, session]
    output_dir,   \* the names of the files in OUTPUT_DIR
    next_uuid,    \* the uuid4() values handed out so far
    files,        \* batch_process: the submitted list of UploadFile
    batch_pc,     \* batch_process: "idle" | "loop" | "process" | "done"
    idx,          \* batch_process: 1-based position of the for loop
    results,      \* batch_process: the results list
    batch_resp,   \* batch_process: the response or HTTPException
    calls,        \* the external calls made for the items: {<<op, i>>}
    raised,       \* raised[i]: the call that raised for item i, or "none"
    item_sessions, \* {<<i, session>>}: the session remove_background used for item i
    dl_filename,  \* download_file: the filename path parameter
    dl_resp,      \* download_file: the response or HTTPException
    fs_lookups    \* download_file: the names resolved against OUTPUT_DIR

serverVars == <<server, app_remover>>
batchVars == <<output_dir, next_uuid, files, batch_pc, idx, results, batch_resp,
               calls, raised, item_sessions>>
downloadVars == <<dl_filename, dl_resp, fs_lookups>>

\* routes.py: len(files) > 5
MaxBatchFiles == 5

DefaultModel == "u2net"

ImagePng == <<"i", "m", "a", "g", "e", "/", "p", "n", "g">>
TextPlain == <<"t", "e", "x", "t", "/", "p", "l", "a", "i", "n">>

\* the uploads: two names, and a content type that is an image type, another
\* type, empty, or missing
UploadFiles ==
    {[filename |-> "a.png", content_type |-> ImagePng],
     [filename |-> "b.png", content_type |-> ImagePng],
     [filename |-> "a.png", content_type |-> TextPlain],
     [filename |-> "b.png", content_type |-> <<>>],
     [filename |-> "b.png", content_type |-> NoText]}

ImagePrefix == <<"i", "m", "a", "g", "e", "/">>

\* a mutant of IsImageUpload: only a missing content type is refused
IsImageUploadAnyType(file) ==
    ~ (file.content_type = NoText \/ file.content_type = <<>>)

\* not (not file.content_type or not file.content_type.startswith("image/"))
IsImageUpload(file) ==
    ~ (\/ file.content_type = NoText
       \/ file.content_type = <<>>
       \/ ~ StartsWith(file.content_type, ImagePrefix))

\* a mutant of TooManyFiles: off by one
TooManyFilesOffByOne(fs) == Len(fs) > MaxBatchFiles + 1

\* len(files) > 5
TooManyFiles(fs) == Len(fs) > MaxBatchFiles

\* str(e) of the exception raised by each external call
ExcMessage(op) ==
    CASE op = "read" -> "upload read failed"
      [] op = "open" -> "cannot identify image file"
      [] op = "segment" -> "segmentation failed"
      [] op = "save" -> "cannot write output file"

Digits == <<"0", "1", "2", "3", "4", "5", "6", "7", "8", "9">>

\* f"batch_{file_id}.png"
OutputFilename(file_id) ==
    <<"b", "a", "t", "c", "h", "_">> \o <<Digits[file_id + 1]>>
        \o <<".", "p", "n", "g">>

\* f"/api/download/{output_filename}"
DownloadUrl(output_filename) ==
    <<"/", "a", "p", "i", "/", "d", "o", "w", "n", "l", "o", "a", "d", "/">>
        \o output_filename

NotImageRecord(file) ==
    [original_filename |-> file.filename, status |-> "error",
     error |-> "Not an image file"]

SuccessRecord(file, output_filename) ==
    [original_filename |-> file.filename, output_filename |-> output_filename,
     download_url |-> DownloadUrl(output_filename), status |-> "success"]

ErrorRecord(file, message) ==
    [original_filename |-> file.filename, status |-> "error", error |-> message]

\* a mutant of OnItemException: the exception is swallowed without a record
OnItemExceptionSwallowed(rs, file, op) == rs

\* except Exception as e: results.append({... "error": str(e)})
OnItemException(rs, file, op) == Append(rs, ErrorRecord(file, ExcMessage(op)))

\* a mutant of AfterItemException: the exception ends the loop
AfterItemExceptionBreak(i, n) == n + 1

\* the for loop goes on with the next file after the except clause
AfterItemException(i, n) == i + 1

\* a mutant of InitializeModel: the first failure propagates, no fallback
InitializeModelNoFallback(self, ok, fallback_ok) ==
    IF ok
    THEN [model_name |-> self.model_name, session |-> self.model_name,
          raised |-> FALSE,
          attempts |-> <<[model |-> self.model_name, ok |-> TRUE]>>]
    ELSE [model_name |-> self.model_name, session |-> self.session,
          raised |-> TRUE,
          attempts |-> <<[model |-> self.model_name, ok |-> FALSE]>>]

\* BackgroundRemover._initialize_model on the remover self: the session of
\* self.model_name; when creating it fails, the session of the default model;
\* when that fails too the exception propagates (raised) with the model name
\* already set to the default and the session left as it was.  attempts
\* lists the new_session calls made, with their outcome
InitializeModel(self, ok, fallback_ok) ==
    IF ok
    THEN [model_name |-> self.model_name, session |-> self.model_name,
          raised |-> FALSE,
          attempts |-> <<[model |-> self.model_name, ok |-> TRUE]>>]
    ELSE IF fallback_ok
         THEN [model_name |-> DefaultModel, session |-> DefaultModel,
               raised |-> FALSE,
               attempts |-> <<[model |-> self.model_name, ok |-> FALSE],
                              [model |-> DefaultModel, ok |-> TRUE]>>]
         ELSE [model_name |-> DefaultModel, session |-> self.session,
               raised |-> TRUE,
               attempts |-> <<[model |-> self.model_name, ok |-> FALSE],
                              [model |-> DefaultModel, ok |-> FALSE]>>]

\* BackgroundRemover.__init__(model_name)
NewRemover(model_name, ok, fallback_ok) ==
    InitializeModel([model_name |-> model_name, session |-> None],
                    ok, fallback_ok)

\* main.py lifespan: the remover is built before the first request is served;
\* when that raises, the startup fails and no request is served
Lifespan ==
    /\ server = "starting"
    /\ \E ok \in BOOLEAN, fallback_ok \in BOOLEAN :
        LET r == NewRemover(DefaultModel, ok, fallback_ok)
        IN  IF r.raised
            THEN /\ server' = "failed"
                 /\ app_remover' = NoRemover
            ELSE /\ server' = "serving"
                 /\ app_remover' = [model_name |-> r.model_name,
                                    session |-> r.session]

\* batch_process up to the for loop, for a list of uploads taken from lists:
\* the readiness and size checks
BatchStartWith(lists) ==
    /\ server = "serving"
    /\ batch_pc = "idle"
    /\ \E fs \in lists :
        /\ files' = fs
        /\ raised' = [i \in 1..Len(fs) |-> "none"]
        /\ IF app_remover = NoRemover
           THEN /\ batch_resp' = [status |-> 503, detail |-> "Service not ready"]
                /\ batch_pc' = "done"
                /\ UNCHANGED <<idx, results>>
           ELSE IF TooManyFiles(fs)
           THEN /\ batch_resp' = [status |-> 400,
                                  detail |-> "Maximum 5 files allowed"]
                /\ batch_pc' = "done"
                /\ UNCHANGED <<idx, results>>
           ELSE /\ results' = <<>>
                /\ idx' = 1
                /\ batch_pc' = "loop"
                /\ UNCHANGED batch_resp
    /\ UNCHANGED <<output_dir, next_uuid, calls, item_sessions>>

\* batch_process called with any list of up to MaxFiles uploads
BatchStart == BatchStartWith(SeqsUpTo(UploadFiles, MaxFiles))

\* the loop body for a file that does not declare an image: record, continue
BatchNotImage ==
    /\ batch_pc = "loop"
    /\ idx <= Len(files)
    /\ ~ IsImageUpload(files[idx])
    /\ results' = Append(results, NotImageRecord(files[idx]))
    /\ idx' = idx + 1
    /\ UNCHANGED <<output_dir, next_uuid, files, batch_pc, batch_resp, calls,
                   raised, item_sessions>>

\* image_data = await file.read(), which may raise
BatchRead ==
    /\ batch_pc = "loop"
    /\ idx <= Len(files)
    /\ IsImageUpload(files[idx])
    /\ calls' = calls \cup {<<"read", idx>>}
    /\ \E ok \in BOOLEAN :
        IF ok
        THEN /\ batch_pc' = "process"
             /\ UNCHANGED <<idx, results, raised>>
        ELSE /\ raised' = [raised EXCEPT ![idx] = "read"]
             /\ results' = OnItemException(results, files[idx], "read")
             /\ idx' = AfterItemException(idx, Len(files))
             /\ UNCHANGED batch_pc
    /\ UNCHANGED <<output_dir, next_uuid, files, batch_resp, item_sessions>>

\* remove_background hands self.session to rembg's remove
SessionUsed(self) == self.session

\* Image.open, remove_background, uuid4 and result.save for the file read,
\* then the success record; the first call that raises gives the error record
BatchProcess ==
    /\ batch_pc = "process"
    /\ \E failing \in {"none", "open", "segment", "save"} :
        LET done == CASE failing = "open" -> {"open"}
                      [] failing = "segment" -> {"open", "segment"}
                      [] OTHER -> {"open", "segment", "save"}
            file_id == next_uuid + 1
            saved == failing = "none"
        IN  /\ calls' = calls \cup {<<op, idx>> : op \in done}
            /\ item_sessions' = IF "segment" \in done
                                THEN item_sessions \cup {<<idx, SessionUsed(app_remover)>>}
                                ELSE item_sessions
            /\ raised' = [raised EXCEPT ![idx] = failing]
            /\ next_uuid' = IF failing \in {"none", "save"}
                            THEN file_id ELSE next_uuid
            /\ output_dir' = IF saved
                             THEN output_dir \cup {OutputFilename(file_id)}
                             ELSE output_dir
            /\ results' = IF saved
                          THEN Append(results,
                                      SuccessRecord(files[idx],
                                                    OutputFilename(file_id)))
                          ELSE OnItemException(results, files[idx], failing)
            /\ idx' = IF saved THEN idx + 1
                      ELSE AfterItemException(idx, Len(files))
    /\ batch_pc' = "loop"
    /\ UNCHANGED <<files, batch_resp>>

\* return {"results": results}
BatchReturn ==
    /\ batch_pc = "loop"
    /\ idx > Len(files)
    /\ batch_resp' = [status |-> 200, results |-> results]
    /\ batch_pc' = "done"
    /\ UNCHANGED <<output_dir, next_uuid, files, idx, results, calls, raised,
                   item_sessions>>

\* the characters of the filenames asked of the download endpoint
NameChars == {".", "/", "\\", "a"}

\* the filenames asked for: short names, and names the batch endpoint makes
DownloadNames ==
    SeqsUpTo(NameChars, MaxNameLen) \cup {OutputFilename(1), OutputFilename(2)}

\* a mutant of InvalidFilename: the backslash is not looked for
InvalidFilenameNoBackslash(filename) ==
    \/ Contains(filename, <<".", ".">>)
    \/ Contains(filename, <<"/">>)

\* ".." in filename or "/" in filename or "\\" in filename
InvalidFilename(filename) ==
    \/ Contains(filename, <<".", ".">>)
    \/ Contains(filename, <<"/">>)
    \/ Contains(filename, <<"\\">>)

\* download_file(filename)
DownloadFile ==
    /\ server = "serving"
    /\ dl_resp = NoResponse
    /\ \E filename \in DownloadNames :
        /\ dl_filename' = filename
        /\ IF InvalidFilename(filename)
           THEN /\ dl_resp' = [status |-> 400, detail |-> "Invalid filename"]
                /\ UNCHANGED fs_lookups
           ELSE /\ fs_lookups' = fs_lookups \cup {filename}
                /\ dl_resp' =
                       IF filename \notin output_dir
                       THEN [status |-> 404, detail |-> "File not found"]
                       ELSE [status |-> 200, filename |-> filename,
                             media_type |-> "image/png"]
    /\ UNCHANGED output_dir

(***************************************************************************)
(* The serverless function: netlify/functions/remove_background.py.        *)
(* A str is a sequence of code points, bytes a sequence of byte symbols;   *)
(* an ASCII character and its byte are the same symbol.                    *)
(***************************************************************************)
VARIABLES
    background_remover,  \* the module's global remover, NoRemover at load
    event,        \* handler: the event of the request being answered
    h_pc,         \* handler: "idle" | "extract" | "process" | "done"
    body,         \* handler: the local body, [type: "str" | "bytes", data]
    image_data,   \* handler: the local image_data, NoText for None
    h_resp,       \* handler: the response returned
    h_trace       \* handler: the calls and steps made for this request

handlerVars == <<background_remover, event, h_pc, body, image_data, h_resp,
                 h_trace>>

CR == "CR"
LF == "LF"
CRLF == <<CR, LF>>

MultipartFormData ==
    <<"m", "u", "l", "t", "i", "p", "a", "r", "t", "/", "f", "o", "r", "m",
      "-", "d", "a", "t", "a">>
BoundaryParam ==
    <<"b", "o", "u", "n", "d", "a", "r", "y", "=">>
ContentTypeMarker ==
    <<"C", "o", "n", "t", "e", "n", "t", "-", "T", "y", "p", "e", ":">>
FilenameMarker ==
    <<"f", "i", "l", "e", "n", "a", "m", "e", "=">>
ImageJpeg ==
    <<"i", "m", "a", "g", "e", "/", "j", "p", "e", "g">>

\* s.split(sep) for a non-empty sep: the pieces between the occurrences of
\* sep, found from the left without overlap
RECURSIVE Split(_, _)
Split(s, sep) ==
    LET i == Find(s, sep)
    IN  IF i = -1 THEN <<s>>
        ELSE <<SubSeq(s, 1, i)>>
                 \o Split(SubSeq(s, i + Len(sep) + 1, Len(s)), sep)

\* s.strip() for the whitespace of the model, the space
RECURSIVE Strip(_)
Strip(s) ==
    IF s = <<>> THEN s
    ELSE IF Head(s) = " " THEN Strip(Tail(s))
    ELSE IF s[Len(s)] = " " THEN Strip(SubSeq(s, 1, Len(s) - 1))
    ELSE s

\* the UTF-8 bytes of one code point
Utf8Char(c) ==
    CASE c = "U+00FF" -> <<"xC3", "xBF">>
      [] c = "U+00D8" -> <<"xC3", "x98">>
      [] OTHER -> <<c>>

\* text.encode('utf-8')
RECURSIVE Utf8Encode(_)
Utf8Encode(text) ==
    IF text = <<>> THEN <<>>
    ELSE Utf8Char(Head(text)) \o Utf8Encode(Tail(text))

\* if isinstance(body, str): body = body.encode('utf-8')
EncodeIfStr(b) ==
    IF b.type = "str" THEN [type |-> "bytes", data |-> Utf8Encode(b.data)]
    ELSE b

\* a mutant of StripTrailingCRLF: every trailing CR and LF goes (rstrip)
RECURSIVE StripTrailingAllCRLF(_)
StripTrailingAllCRLF(file_data) ==
    IF file_data # <<>> /\ file_data[Len(file_data)] \in {CR, LF}
    THEN StripTrailingAllCRLF(SubSeq(file_data, 1, Len(file_data) - 1))
    ELSE file_data

\* if file_data.endswith(b'\r\n'): file_data = file_data[:-2]
StripTrailingCRLF(file_data) ==
    IF EndsWith(file_data, CRLF)
    THEN SubSeq(file_data, 1, Len(file_data) - 2)
    ELSE file_data

\* the for loop of parse_multipart_form_data from part k on: the data of the
\* first part holding both markers and a blank line, None when there is none
RECURSIVE ScanParts(_, _)
ScanParts(parts, k) ==
    IF k > Len(parts) THEN NoText
    ELSE LET part == parts[k]
             header_end == Find(part, CRLF \o CRLF)
         IN  IF /\ Contains(part, ContentTypeMarker)
                /\ Contains(part, FilenameMarker)
                /\ header_end # -1
             THEN StripTrailingCRLF(SubSeq(part, header_end + 5, Len(part)))
             ELSE ScanParts(parts, k + 1)

\* parse_multipart_form_data(body, boundary)
parse_multipart_form_data(b, boundary) ==
    ScanParts(Split(EncodeIfStr(b).data, <<"-", "-">> \o Utf8Encode(boundary)),
              1)

\* a mutant of HasImageSignature: the RIFF container is not recognized
HasImageSignatureNoRiff(data) ==
    \/ StartsWith(data, <<"xFF", "xD8", "xFF">>)
    \/ StartsWith(data, <<"x89", "P", "N", "G">>)

\* body.startswith(b'\xff\xd8\xff') or body.startswith(b'\x89PNG')
\*     or body.startswith(b'RIFF')
HasImageSignature(data) ==
    \/ StartsWith(data, <<"xFF", "xD8", "xFF">>)
    \/ StartsWith(data, <<"x89", "P", "N", "G">>)
    \/ StartsWith(data, <<"R", "I", "F", "F">>)

\* a mutant of NoImageData: an empty payload passes for image data
NoImageDataOnlyNone(data) == data = NoText

\* image_data is None or len(image_data) == 0
NoImageData(data) == data = NoText \/ Len(data) = 0

\* a mutant of MethodNotAllowed: GET is let through to the POST path
MethodNotAllowedButGet(method) == method \notin {"POST", "GET"}

\* event['httpMethod'] != 'POST'
MethodNotAllowed(method) == method # "POST"

(***************************************************************************)
(* The requests the function is sent.                                      *)
(***************************************************************************)
FileHeaders ==
    <<"C", "o", "n", "t", "e", "n", "t", "-", "T", "y", "p", "e", ":", " ",
      "i", "m", "a", "g", "e", "/", "p", "n", "g", CR, LF, "f", "i", "l",
      "e", "n", "a", "m", "e", "=", "\"", "x", ".", "p", "n", "g", "\"">>
FieldHeaders ==
    <<"C", "o", "n", "t", "e", "n", "t", "-", "D", "i", "s", "p", "o", "s",
      "i", "t", "i", "o", "n", ":", " ", "f", "o", "r", "m", "-", "d", "a",
      "t", "a", ";", " ", "n", "a", "m", "e", "=", "\"", "a", "\"">>

\* the multipart body of one part with the given headers and payload
FormBody(boundary, headers, payload) ==
    <<"-", "-">> \o boundary \o CRLF \o headers \o CRLF \o CRLF \o payload
        \o CRLF \o <<"-", "-">> \o boundary \o <<"-", "-">>

EmptyBody == <<>>
RiffText == <<"R", "I", "F", "F", "x">>
PlainText == <<"x", "R", "I", "F", "F">>
JpegBase64 == <<"/", "9", "j", "/">>
PngBase64 == <<"i", "V", "B", "O", "R", "w", "=", "=">>
BadBase64 == <<"A">>
JpegCodePoints == <<"U+00FF", "U+00D8", "U+00FF">>
FormWithFile == FormBody(<<"B">>, FileHeaders, <<"x">>)
FormWithEmptyFile == FormBody(<<"B">>, FileHeaders, <<>>)
FormWithField == FormBody(<<"B">>, FieldHeaders, <<"v">>)
FormWithFileBase64 ==
    <<"L", "S", "1", "C", "D", "Q", "p", "D", "b", "2", "5", "0", "Z", "W",
      "5", "0", "L", "V", "R", "5", "c", "G", "U", "6", "I", "G", "l", "t",
      "Y", "W", "d", "l", "L", "3", "B", "u", "Z", "w", "0", "K", "Z", "m",
      "l", "s", "Z", "W", "5", "h", "b", "W", "U", "9", "I", "n", "g", "u",
      "c", "G", "5", "n", "I", "g", "0", "K", "D", "Q", "p", "4", "D", "Q",
      "o", "t", "L", "U", "I", "t", "L", "Q", "=", "=">>
FormWithFieldDecoded ==
    <<"x04", "*", "'", "xB5", "xE9", "xED", "x0E", "+", ")", "xA2", "xC8",
      "xAD", "x8A", "x89", "xDF", "xA2", "xB9", "x9D", "j", "xD6", "xA7",
      "j", "g">>

EventBodies ==
    {EmptyBody, RiffText, PlainText, JpegBase64, PngBase64, BadBase64,
     JpegCodePoints, FormWithFile, FormWithEmptyFile, FormWithField,
     FormWithFileBase64}

\* base64.b64decode(text) on the bodies of the model: the bytes, or NoText
\* when it raises (bad padding or length, a character that is not ASCII)
B64Decode(text) ==
    CASE text = EmptyBody -> <<>>
      [] text = JpegBase64 -> <<"xFF", "xD8", "xFF">>
      [] text = PngBase64 -> <<"x89", "P", "N", "G">>
      [] text = FormWithFileBase64 -> FormWithFile
      [] text = FormWithField -> FormWithFieldDecoded
      [] text \in {RiffText, PlainText, BadBase64, JpegCodePoints,
                   FormWithFile, FormWithEmptyFile} -> NoText

\* the values of the content-type header; <<>> when the header is missing
EventContentTypes ==
    {<<>>,
     ImageJpeg,
     MultipartFormData,
     MultipartFormData \o <<";", " ">> \o BoundaryParam,
     MultipartFormData \o <<";", " ">> \o BoundaryParam \o <<"B">>,
     MultipartFormData \o <<";", " ">> \o BoundaryParam \o <<"B", " ">>}

Events ==
    [httpMethod : {"OPTIONS", "POST", "GET"},
     content_type : EventContentTypes,
     body : EventBodies,
     isBase64Encoded : BOOLEAN]

CorsHeaders ==
    [allow_origin |-> "*", allow_headers |-> "Content-Type",
     allow_methods |-> "POST, OPTIONS"]

NoEvent ==
    [httpMethod |-> None, content_type |-> <<>>, body |-> <<>>,
     isBase64Encoded |-> FALSE]
NoBody == [type |-> None, data |-> <<>>]

\* the handler up to the decoded body: the CORS preflight, the method check,
\* init_background_remover and the base64 decoding
HandlerDispatch ==
    /\ h_pc \in {"idle", "done"}
    /\ \E ev \in Events, ok \in BOOLEAN, fallback_ok \in BOOLEAN :
        LET built == NewRemover(DefaultModel, ok, fallback_ok)
            decoded == B64Decode(ev.body)
        IN
        /\ event' = ev
        /\ image_data' = NoText
        /\ IF ev.httpMethod = "OPTIONS"
           THEN /\ h_resp' = [statusCode |-> 200, headers |-> CorsHeaders,
                              body |-> <<>>]
                /\ h_pc' = "done"
                /\ h_trace' = {}
                /\ body' = NoBody
                /\ UNCHANGED background_remover
           ELSE IF MethodNotAllowed(ev.httpMethod)
           THEN /\ h_resp' = [statusCode |-> 405, headers |-> CorsHeaders,
                              body |-> [error |-> "Method not allowed"]]
                /\ h_pc' = "done"
                /\ h_trace' = {}
                /\ body' = NoBody
                /\ UNCHANGED background_remover
           ELSE IF background_remover = NoRemover /\ built.raised
           THEN /\ h_resp' = [statusCode |-> 500,
                              body |-> [type |-> "server_error"]]
                /\ h_pc' = "done"
                /\ h_trace' = {"init_background_remover"}
                /\ body' = NoBody
                /\ UNCHANGED background_remover
           ELSE /\ background_remover' =
                       IF background_remover = NoRemover
                       THEN [model_name |-> built.model_name,
                             session |-> built.session]
                       ELSE background_remover
                /\ IF ev.isBase64Encoded /\ decoded = NoText
                   THEN /\ h_resp' =
                               [statusCode |-> 400, headers |-> CorsHeaders,
                                body |-> [error |-> "Invalid base64 encoding"]]
                        /\ h_pc' = "done"
                        /\ h_trace' = {"init_background_remover", "b64decode"}
                        /\ body' = NoBody
                   ELSE /\ body' = IF ev.isBase64Encoded
                                   THEN [type |-> "bytes", data |-> decoded]
                                   ELSE [type |-> "str", data |-> ev.body]
                        /\ h_trace' =
                               IF ev.isBase64Encoded
                               THEN {"init_background_remover", "b64decode"}
                               ELSE {"init_background_remover"}
                        /\ h_pc' = "extract"
                        /\ h_resp' = NoResponse

\* the handler from the content type to image_data, and the 400 response
\* when there is none
HandlerExtract ==
    /\ h_pc = "extract"
    /\ LET content_type == event.content_type
           multipart == Contains(content_type, MultipartFormData)
           boundary_match == Split(content_type, BoundaryParam)
           parsing == multipart /\ Len(boundary_match) > 1
           new_body == IF multipart THEN body ELSE EncodeIfStr(body)
           data == IF parsing
                   THEN parse_multipart_form_data(body,
                                                  Strip(boundary_match[2]))
                   ELSE IF ~ multipart /\ HasImageSignature(new_body.data)
                   THEN new_body.data
                   ELSE NoText
       IN  /\ body' = new_body
           /\ image_data' = data
           /\ h_trace' = h_trace \cup {"extract"}
                             \cup (IF parsing THEN {"parse"} ELSE {})
           /\ IF NoImageData(data)
              THEN /\ h_resp' =
                          [statusCode |-> 400, headers |-> CorsHeaders,
                           body |-> [error |-> "No valid image data found",
                                     debug |->
                                       [content_type |-> content_type,
                                        body_length |-> Len(new_body.data),
                                        is_base64 |-> event.isBase64Encoded]]]
                   /\ h_pc' = "done"
              ELSE /\ h_pc' = "process"
                   /\ UNCHANGED h_resp
    /\ UNCHANGED <<background_remover, event>>

\* Image.open, remover.remove_background and result_image.save; the first
\* that raises gives the 500 response of the inner except clause
HandlerProcess ==
    /\ h_pc = "process"
    /\ \E failing \in {"none", "open", "segment", "save"} :
        /\ h_trace' = h_trace \cup
              (CASE failing = "open" -> {"open"}
                 [] failing = "segment" -> {"open", "segment"}
                 [] OTHER -> {"open", "segment", "save"})
        /\ h_resp' = IF failing = "none"
                     THEN [statusCode |-> 200, headers |-> CorsHeaders,
                           content_type |-> "image/png",
                           isBase64Encoded |-> TRUE]
                     ELSE [statusCode |-> 500, headers |-> CorsHeaders,
                           body |-> [type |-> "processing_error"]]
    /\ h_pc' = "done"
    /\ UNCHANGED <<background_remover, event, body, image_data>>

(***************************************************************************)
(* parse_multipart_form_data on its own, applied to well-formed one-part   *)
(* bodies.                                                                 *)
(***************************************************************************)
VARIABLES
    parse_boundary,  \* the boundary argument
    parse_payload,   \* the payload the body argument was built around
    parse_body,      \* the body argument
    parse_pc,        \* "idle" | "input" | "returned"
    parse_result     \* the value returned, NoText for None

parseVars == <<parse_boundary, parse_payload, parse_body, parse_pc,
               parse_result>>

PayloadBytes == {"-", "B", CR, LF, "x"}
ParseBoundaries == {<<"B">>, <<"-", "B">>, <<"B", "B">>}

ParseIdle ==
    /\ parse_boundary = <<>>
    /\ parse_payload = <<>>
    /\ parse_body = NoBody
    /\ parse_pc = "idle"
    /\ parse_result = NoText

ParseInput ==
    /\ parse_boundary \in ParseBoundaries
    /\ parse_payload \in SeqsUpTo(PayloadBytes, MaxPayload)
    /\ parse_body \in
           {[type |-> t,
             data |-> FormBody(parse_boundary, FileHeaders, parse_payload)] :
                t \in {"str", "bytes"}}
    /\ parse_pc = "input"
    /\ parse_result = NoText

\* the call parse_multipart_form_data(body, boundary)
ParseCall ==
    /\ parse_pc = "input"
    /\ parse_result' = parse_multipart_form_data(parse_body, parse_boundary)
    /\ parse_pc' = "returned"
    /\ UNCHANGED <<parse_boundary, parse_payload, parse_body>>

(***************************************************************************)
(* BackgroundRemover.batch_process(input_folder, output_folder, callback). *)
(***************************************************************************)
VARIABLES
    rb_pc,            \* "idle" | "loop" | "done" | "raised"
    rb_callback,      \* whether a callback was supplied
    image_files,      \* the names listed that end in a supported format
    rb_i,             \* the loop index i of enumerate(image_files)
    processed_files,  \* the list returned
    progress,         \* the calls of callback: <<completed, total, name>>
    rb_raised         \* rb_raised[k]: what raised for item k, or "none"

removerBatchVars == <<rb_pc, rb_callback, image_files, rb_i, processed_files,
                      progress, rb_raised>>

SupportedFormats ==
    {<<".", "j", "p", "g">>, <<".", "j", "p", "e", "g">>,
     <<".", "p", "n", "g">>, <<".", "b", "m", "p">>,
     <<".", "t", "i", "f", "f">>, <<".", "w", "e", "b", "p">>}

NoBgSuffix == <<"_", "n", "o", "_", "b", "g", ".", "p", "n", "g">>
OutputFolder == <<"o", "u", "t">>

\* the names found in the input folder
FolderNames ==
    {<<"a", ".", "j", "p", "g">>, <<"b", ".", "P", "N", "G">>,
     <<"c", ".", "t", "x", "t">>, <<"d", ".", "w", "e", "b", "p">>}

\* os.listdir(input_folder): names without repetition, in any order
Listings ==
    {l \in SeqsUpTo(FolderNames, MaxFolder) :
        \A i, j \in 1..Len(l) : i # j => l[i] # l[j]}

LowerChar(c) ==
    CASE c = "P" -> "p" [] c = "N" -> "n" [] c = "G" -> "g" [] OTHER -> c

\* f.lower()
Lower(f) == [k \in 1..Len(f) |-> LowerChar(f[k])]

\* f.lower().endswith(supported_formats)
IsSupported(f) == \E ext \in SupportedFormats : EndsWith(Lower(f), ext)

\* [f for f in listing if f.lower().endswith(supported_formats)]
RECURSIVE FilterSupported(_)
FilterSupported(listing) ==
    IF listing = <<>> THEN <<>>
    ELSE (IF IsSupported(Head(listing)) THEN <<Head(listing)>> ELSE <<>>)
             \o FilterSupported(Tail(listing))

\* os.path.splitext(filename)[0]: the name up to its last dot, the whole
\* name when it has no dot after its first character that is not a dot
SplitextRoot(filename) ==
    LET dots == {k \in 1..Len(filename) :
                    /\ filename[k] = "."
                    /\ \E j \in 1..(k - 1) : filename[j] # "."}
    IN  IF dots = {} THEN filename
        ELSE SubSeq(filename, 1,
                    (CHOOSE k \in dots : \A j \in dots : j <= k) - 1)

\* os.path.join(output_folder, splitext(filename)[0] + '_no_bg.png')
OutputPath(filename) ==
    OutputFolder \o <<"/">> \o SplitextRoot(filename) \o NoBgSuffix

RemoverBatchIdle ==
    /\ rb_pc = "idle"
    /\ rb_callback = FALSE
    /\ image_files = <<>>
    /\ rb_i = 0
    /\ processed_files = <<>>
    /\ progress = <<>>
    /\ rb_raised = <<>>

\* batch_process up to the for loop; makedirs or listdir raising is raised
\* again by the outer except clause
RemoverBatchStart ==
    /\ rb_pc = "idle"
    /\ \E listing \in Listings, callback \in BOOLEAN, ok \in BOOLEAN :
        /\ rb_callback' = callback
        /\ IF ok
           THEN /\ image_files' = FilterSupported(listing)
                /\ rb_raised' =
                       [k \in 1..Len(FilterSupported(listing)) |-> "none"]
                /\ rb_pc' = "loop"
           ELSE /\ rb_pc' = "raised"
                /\ UNCHANGED <<image_files, rb_raised>>
    /\ rb_i' = 0
    /\ processed_files' = <<>>
    /\ progress' = <<>>

\* an except clause of the for loop that leaves the loop
AfterFailedItemStop(i, n) == n

\* except Exception as e: logger.error(...); continue -- the loop goes on
\* with the next item
AfterFailedItem(i, n) == i + 1

\* one turn of the for loop: remove_background, save, append, and the
\* callback when one was supplied; the first of them that raises is logged
\* by the except clause and the loop continues
RemoverBatchItem ==
    /\ rb_pc = "loop"
    /\ rb_i < Len(image_files)
    /\ LET filename == image_files[rb_i + 1]
           total_files == Len(image_files)
       IN  \E failing \in {"none", "segment", "save", "callback"} :
            /\ failing = "callback" => rb_callback
            /\ rb_raised' = [rb_raised EXCEPT ![rb_i + 1] = failing]
            /\ processed_files' =
                   IF failing \in {"none", "callback"}
                   THEN Append(processed_files, OutputPath(filename))
                   ELSE processed_files
            /\ progress' =
                   IF failing \in {"none", "callback"} /\ rb_callback
                   THEN Append(progress, <<rb_i + 1, total_files, filename>>)
                   ELSE progress
            /\ rb_i' = IF failing = "none" THEN rb_i + 1
                       ELSE AfterFailedItem(rb_i, total_files)
    /\ UNCHANGED <<rb_pc, rb_callback, image_files>>

\* return processed_files
RemoverBatchReturn ==
    /\ rb_pc = "loop"
    /\ rb_i = Len(image_files)
    /\ rb_pc' = "done"
    /\ UNCHANGED <<rb_callback, image_files, rb_i, processed_files, progress,
                   rb_raised>>

(***************************************************************************)
(* The single-image endpoint: remove_background_api of app/api/routes.py,  *)
(* and the asyncio event loop that runs the request handlers.  A handler   *)
(* keeps the loop from the moment it is resumed until its next await.      *)
(***************************************************************************)
VARIABLES
    single_pc,    \* per request: "idle" | "read" | "opened" | "switched" |
                  \*              "inferring" | "done"
    single_req,   \* per request: [content_type, size, model]
    single_seen,  \* per request: what file.read and Image.open gave
    single_calls, \* per request: the external calls made
    single_resp,  \* per request: the response or HTTPException
    running,      \* the handler that holds the event loop, or "none"
    inflight      \* the requests with a remove_background call in progress

singleVars == <<single_pc, single_req, single_seen, single_calls, single_resp,
                running, inflight>>

\* the concurrent single-image requests
Tasks == {"s1", "s2"}

\* file.size of an upload whose size is not known
NoSize == -1

\* 10 * 1024 * 1024
MaxUploadBytes == 10 * 1024 * 1024

\* input_image.size[0] > 4096 or input_image.size[1] > 4096
MaxDimension == 4096

\* BackgroundRemover.get_available_models
AvailableModels ==
    {"u2net", "u2netp", "u2net_human_seg", "silueta", "isnet-general-use"}

NoRequest == [content_type |-> NoText, size |-> NoSize, model |-> None]

\* the requests: the declared content type, the size and the model form field
SingleRequests ==
    [content_type : {ImagePng, TextPlain, NoText},
     size : {NoSize, 0, MaxUploadBytes, MaxUploadBytes + 1},
     model : {"u2net", "u2netp", "nosuch"}]

\* file.size and file.size > 10 * 1024 * 1024
FileTooLarge(file) == file.size # NoSize /\ file.size # 0 /\ file.size > MaxUploadBytes

\* input_image.size[0] > 4096 or input_image.size[1] > 4096
ImageTooLarge(width, height) == width > MaxDimension \/ height > MaxDimension

\* an HTTPException raised by the handler outside its try block
HTTPError(status, detail) == [status |-> status, detail |-> detail]

\* except Exception as e: raise HTTPException(500, f"Processing failed: {e}");
\* the clause catches whatever the try block raised, HTTPException included
ProcessingFailed(e) == [status |-> 500, detail |-> "Processing failed", cause |-> e]

\* a switch_model that assigns the name before it tests it
SwitchModelAssignsFirst(self, model_name, ok, fallback_ok) ==
    IF model_name \in AvailableModels
    THEN InitializeModel([model_name |-> model_name, session |-> self.session], ok, fallback_ok)
    ELSE [model_name |-> model_name, session |-> self.session,
          raised |-> TRUE, attempts |-> <<>>]

\* BackgroundRemover.switch_model(model_name) on the remover self
SwitchModel(self, model_name, ok, fallback_ok) ==
    IF model_name \in AvailableModels
    THEN InitializeModel([model_name |-> model_name, session |-> self.session],
                         ok, fallback_ok)
    ELSE [model_name |-> self.model_name, session |-> self.session,
          raised |-> TRUE, attempts |-> <<>>]

\* the handler may be resumed: no other handler holds the event loop
CanRun(t) == running \in {"none", t}

\* a mutant of InferenceYields: the call is awaited in a worker thread
InferenceYieldsToLoop == TRUE

\* result = background_remover.remove_background(input_image) is a plain
\* call: the handler does not give up the event loop while it runs
InferenceYields == FALSE

\* remove_background_api called with a request of reqs, up to
\* "await file.read()": the checks made before the try block
SingleStartWith(t, reqs) ==
    /\ server = "serving"
    /\ running = "none"
    /\ single_pc[t] \in {"idle", "done"}
    /\ \E req \in reqs :
        /\ single_req' = [single_req EXCEPT ![t] = req]
        /\ single_seen' = [single_seen EXCEPT ![t] = "none"]
        /\ single_calls' = [single_calls EXCEPT ![t] = {}]
        /\ IF app_remover = NoRemover
           THEN /\ single_resp' = [single_resp EXCEPT
                                      ![t] = HTTPError(503, "Service not ready")]
                /\ single_pc' = [single_pc EXCEPT ![t] = "done"]
           ELSE IF ~ IsImageUpload(req)
           THEN /\ single_resp' = [single_resp EXCEPT
                                      ![t] = HTTPError(400, "File must be an image")]
                /\ single_pc' = [single_pc EXCEPT ![t] = "done"]
           ELSE IF FileTooLarge(req)
           THEN /\ single_resp' = [single_resp EXCEPT
                                      ![t] = HTTPError(413, "File too large (max 10MB)")]
                /\ single_pc' = [single_pc EXCEPT ![t] = "done"]
           ELSE /\ single_resp' = [single_resp EXCEPT ![t] = NoResponse]
                /\ single_pc' = [single_pc EXCEPT ![t] = "read"]
    /\ UNCHANGED <<running, inflight, app_remover>>

\* remove_background_api called with any request
SingleStart(t) == SingleStartWith(t, SingleRequests)

\* the handler resumed with the bytes of the upload: the empty-file check,
\* Image.open and the dimension check, all inside the try block
SingleRead(t) ==
    /\ single_pc[t] = "read"
    /\ running = "none"
    /\ single_calls' = [single_calls EXCEPT ![t] = @ \cup {"read"}]
    /\ \E seen \in {"read raised", "empty", "open raised", "too wide",
                    "too high", "image"} :
        /\ seen = "empty" => single_req[t].size \in {NoSize, 0}
        /\ seen # "empty" /\ seen # "read raised" => single_req[t].size # 0
        /\ single_seen' = [single_seen EXCEPT ![t] = seen]
        /\ LET width == IF seen = "too wide" THEN MaxDimension + 1
                        ELSE MaxDimension
               height == IF seen = "too high" THEN MaxDimension + 1
                         ELSE MaxDimension
           IN  IF seen = "read raised"
               THEN /\ single_resp' = [single_resp EXCEPT
                           ![t] = ProcessingFailed("upload read failed")]
                    /\ single_pc' = [single_pc EXCEPT ![t] = "done"]
                    /\ running' = "none"
               ELSE IF seen = "empty"
               THEN /\ single_resp' = [single_resp EXCEPT
                           ![t] = ProcessingFailed("Empty file")]
                    /\ single_pc' = [single_pc EXCEPT ![t] = "done"]
                    /\ running' = "none"
               ELSE IF seen = "open raised"
               THEN /\ single_resp' = [single_resp EXCEPT
                           ![t] = ProcessingFailed("cannot identify image file")]
                    /\ single_pc' = [single_pc EXCEPT ![t] = "done"]
                    /\ running' = "none"
               ELSE IF ImageTooLarge(width, height)
               THEN /\ single_resp' = [single_resp EXCEPT
                           ![t] = ProcessingFailed("Image too large (max 4096x4096)")]
                    /\ single_pc' = [single_pc EXCEPT ![t] = "done"]
                    /\ running' = "none"
               ELSE /\ single_pc' = [single_pc EXCEPT ![t] = "opened"]
                    /\ running' = t
                    /\ UNCHANGED single_resp
    /\ UNCHANGED <<single_req, inflight, app_remover>>

\* if model != background_remover.model_name:
\*     background_remover.switch_model(model)
SingleSwitch(t) ==
    /\ single_pc[t] = "opened"
    /\ running = t
    /\ IF single_req[t].model # app_remover.model_name
       THEN /\ single_calls' = [single_calls EXCEPT ![t] = @ \cup {"switch"}]
            /\ \E ok \in BOOLEAN, fallback_ok \in BOOLEAN :
                LET r == SwitchModel(app_remover, single_req[t].model, ok,
                                     fallback_ok)
                IN  /\ app_remover' = [model_name |-> r.model_name,
                                       session |-> r.session]
                    /\ IF r.raised
                       THEN /\ single_resp' = [single_resp EXCEPT
                                  ![t] = ProcessingFailed("switch_model failed")]
                            /\ single_pc' = [single_pc EXCEPT ![t] = "done"]
                            /\ running' = "none"
                       ELSE /\ single_pc' = [single_pc EXCEPT ![t] = "switched"]
                            /\ UNCHANGED <<single_resp, running>>
       ELSE /\ single_pc' = [single_pc EXCEPT ![t] = "switched"]
            /\ UNCHANGED <<single_calls, single_resp, running, app_remover>>
    /\ UNCHANGED <<single_req, single_seen, inflight>>

\* result = background_remover.remove_background(input_image): the call
\* begins, with the session the remover holds
SingleInferBegin(t) ==
    /\ single_pc[t] = "switched"
    /\ running = t
    /\ single_calls' = [single_calls EXCEPT ![t] = @ \cup {"segment"}]
    /\ inflight' = inflight \cup {t}
    /\ single_pc' = [single_pc EXCEPT ![t] = "inferring"]
    /\ running' = IF InferenceYields THEN "none" ELSE t
    /\ UNCHANGED <<single_req, single_seen, single_resp, app_remover>>

\* the call returns or raises; then enhance_edges, result.save and the
\* StreamingResponse, or the except clause
SingleInferEnd(t) ==
    /\ single_pc[t] = "inferring"
    /\ CanRun(t)
    /\ inflight' = inflight \ {t}
    /\ \E failing \in {"none", "segment", "enhance", "save"} :
        single_resp' = [single_resp EXCEPT
            ![t] = IF failing = "none"
                   THEN [status |-> 200, media_type |-> "image/png"]
                   ELSE ProcessingFailed(failing)]
    /\ single_pc' = [single_pc EXCEPT ![t] = "done"]
    /\ running' = "none"
    /\ UNCHANGED <<single_req, single_seen, single_calls, app_remover>>

SingleIdle ==
    /\ single_pc = [t \in Tasks |-> "idle"]
    /\ single_req = [t \in Tasks |-> NoRequest]
    /\ single_seen = [t \in Tasks |-> "none"]
    /\ single_calls = [t \in Tasks |-> {}]
    /\ single_resp = [t \in Tasks |-> NoResponse]
    /\ running = "none"
    /\ inflight = {}

(***************************************************************************)
(* Config of app/utils/config.py.  A JSON value is a node: Leaf(x) for a   *)
(* string, number, list or null, Dict(items) for an object whose items map *)
(* keys to nodes.  dict.copy() is shallow: after it, self.config and       *)
(* self._default_config hold the very same section objects, so cfg_shared  *)
(* names the keys of self.config whose value is the object that            *)
(* self._default_config holds under the same key, and cfg_own gives the    *)
(* values of the other keys.                                               *)
(***************************************************************************)
VARIABLES
    cfg_pc,       \* "new" before Config(), then "ready"
    cfg_file,     \* the configuration file: [exists, valid, json]
    cfg_default,  \* the items of self._default_config
    cfg_shared,   \* the keys of self.config shared with self._default_config
    cfg_own,      \* the items of self.config that are its own
    cfg_op,       \* the last call made: [name, keys]
    cfg_ret,      \* what it returned: [raised, value]
    cfg_sets      \* the number of set calls made

configVars == <<cfg_pc, cfg_file, cfg_default, cfg_shared, cfg_own, cfg_op,
                cfg_ret, cfg_sets>>

\* the most calls of Config.set in one run
MaxSets == 1

Leaf(x) == [leaf |-> x]
Dict(items) == [dict |-> items]

\* isinstance(node, dict)
IsDict(node) == DOMAIN node = {"dict"}

\* {}
NoItems == [k \in {} |-> Leaf(None)]

\* items[key] = node
Put(items, key, node) ==
    [k \in DOMAIN items \cup {key} |-> IF k = key THEN node ELSE items[k]]

\* self._default_config as __init__ builds it, abridged to the sections
\* "models" and "web" with one and two of their keys
BuiltinDefaults ==
    [k \in {"models", "web"} |->
        IF k = "models"
        THEN Dict([j \in {"default", "cache_dir"} |->
                      IF j = "default" THEN Leaf("u2net")
                      ELSE Leaf("config/models")])
        ELSE Dict([j \in {"port"} |-> Leaf("8000")])]

\* the segments of the dotted keys used: names of the defaults and a name
\* the defaults do not have
Segments == {"models", "default", "extra"}

\* key.split('.') of the keys passed to get and set: one or two segments,
\* and two keys of three segments
KeyPaths ==
    (SeqsUpTo(Segments, 2) \ {<<>>})
        \cup {<<"models", "default", "extra">>, <<"extra", "extra", "extra">>}

\* the JSON objects found in the configuration file
FileSections ==
    {Leaf("silueta")} \cup
    {Dict(f) : f \in UNION {[D -> {Leaf("silueta")}] :
                               D \in SUBSET {"default", "extra"}}}

FileObjects ==
    UNION {[D -> FileSections] : D \in SUBSET {"models", "extra"}}

\* the file: missing, not JSON, a JSON value that is not an object, an object
ConfigFiles ==
    {[exists |-> FALSE, valid |-> FALSE, json |-> Leaf(None)],
     [exists |-> TRUE, valid |-> FALSE, json |-> Leaf(None)],
     [exists |-> TRUE, valid |-> TRUE, json |-> Leaf("list")]}
    \cup {[exists |-> TRUE, valid |-> TRUE, json |-> Dict(obj)] :
             obj \in FileObjects}

\* a mutant of DeepMerge: the keys of base that update lacks are dropped
DeepMergeUpdateOnly(base, update) == update

\* Config._deep_merge(base, update) on the items of two dicts
RECURSIVE DeepMerge(_, _)
DeepMerge(base, update) ==
    [k \in DOMAIN base \cup DOMAIN update |->
        IF k \notin DOMAIN update THEN base[k]
        ELSE IF k \in DOMAIN base /\ IsDict(base[k]) /\ IsDict(update[k])
        THEN Dict(DeepMerge(base[k].dict, update[k].dict))
        ELSE update[k]]

\* for k in keys: value = value[k]
RECURSIVE Descend(_, _)
Descend(value, keys) ==
    IF keys = <<>> THEN [raised |-> "none", value |-> value]
    ELSE IF ~ IsDict(value) THEN [raised |-> "TypeError", value |-> value]
    ELSE IF Head(keys) \notin DOMAIN value.dict
    THEN [raised |-> "KeyError", value |-> value]
    ELSE Descend(value.dict[Head(keys)], Tail(keys))

\* a mutant of CaughtByGet: only the missing key is caught
CaughtByGetKeyErrorOnly == {"KeyError"}

\* except (KeyError, TypeError)
CaughtByGet == {"KeyError", "TypeError"}

\* Config.get(key, default) on the value of self.config
Get(config, keys, default) ==
    LET r == Descend(config, keys)
    IN  IF r.raised = "none" THEN r
        ELSE IF r.raised \in CaughtByGet
        THEN [raised |-> "none", value |-> default]
        ELSE r

\* Config.set below the first segment: the walk through keys[:-1], which
\* makes the dicts that are missing, and the assignment under keys[-1]
RECURSIVE SetIn(_, _, _)
SetIn(node, keys, value) ==
    IF ~ IsDict(node) THEN [raised |-> "TypeError", node |-> node]
    ELSE IF Len(keys) = 1
    THEN [raised |-> "none", node |-> Dict(Put(node.dict, keys[1], value))]
    ELSE LET child == IF Head(keys) \in DOMAIN node.dict
                      THEN node.dict[Head(keys)]
                      ELSE Dict(NoItems)
             r == SetIn(child, Tail(keys), value)
         IN  [raised |-> r.raised,
              node |-> IF r.raised = "none"
                       THEN Dict(Put(node.dict, Head(keys), r.node))
                       ELSE node]

\* the value of self.config
ConfigValue ==
    Dict([k \in cfg_shared \cup DOMAIN cfg_own |->
             IF k \in cfg_shared THEN cfg_default[k] ELSE cfg_own[k]])

\* the keys under which the file and the defaults both hold a dict
MergedInPlace(obj) ==
    {k \in DOMAIN obj \cap DOMAIN cfg_default :
        IsDict(cfg_default[k]) /\ IsDict(obj[k])}

\* Config.__init__: self.config = self._load_config().  Without a file the
\* defaults are written and copied; a file that cannot be parsed or is not
\* an object gives a copy of the defaults; an object is merged into a copy
\* of the defaults, section dicts being merged in place
ConfigLoad ==
    /\ cfg_pc = "new"
    /\ cfg_pc' = "ready"
    /\ cfg_op' = [name |-> "load", keys |-> <<>>]
    /\ cfg_ret' = [raised |-> "none", value |-> Leaf(None)]
    /\ IF ~ cfg_file.exists
       THEN /\ \E written \in BOOLEAN :
                cfg_file' = IF written
                            THEN [exists |-> TRUE, valid |-> TRUE,
                                  json |-> Dict(cfg_default)]
                            ELSE cfg_file
            /\ cfg_shared' = DOMAIN cfg_default
            /\ UNCHANGED <<cfg_default, cfg_own>>
       ELSE IF ~ cfg_file.valid \/ ~ IsDict(cfg_file.json)
       THEN /\ cfg_shared' = DOMAIN cfg_default
            /\ UNCHANGED <<cfg_file, cfg_default, cfg_own>>
       ELSE LET obj == cfg_file.json.dict
                merged == MergedInPlace(obj)
            IN  /\ cfg_default' =
                       [k \in DOMAIN cfg_default |->
                           IF k \in merged
                           THEN Dict(DeepMerge(cfg_default[k].dict, obj[k].dict))
                           ELSE cfg_default[k]]
                /\ cfg_shared' = DOMAIN cfg_default \ (DOMAIN obj \ merged)
                /\ cfg_own' = [k \in DOMAIN obj \ merged |-> obj[k]]
                /\ UNCHANGED cfg_file
    /\ UNCHANGED cfg_sets

\* Config.get(key, default)
ConfigGet ==
    /\ cfg_pc = "ready"
    /\ \E keys \in KeyPaths :
        /\ cfg_op' = [name |-> "get", keys |-> keys]
        /\ cfg_ret' = Get(ConfigValue, keys, Leaf("caller default"))
    /\ UNCHANGED <<cfg_pc, cfg_file, cfg_default, cfg_shared, cfg_own, cfg_sets>>

\* Config.set(key, value): the first segment is looked up in self.config
\* itself, the others in the section found or made there
ConfigSet ==
    /\ cfg_pc = "ready"
    /\ cfg_sets < MaxSets
    /\ cfg_sets' = cfg_sets + 1
    /\ \E keys \in KeyPaths :
        LET k == Head(keys)
            value == Leaf("isnet-general-use")
            section == IF k \in DOMAIN ConfigValue.dict
                       THEN ConfigValue.dict[k] ELSE Dict(NoItems)
            r == SetIn(section, Tail(keys), value)
        IN  /\ cfg_op' = [name |-> "set", keys |-> keys]
            /\ IF Len(keys) = 1
               THEN /\ cfg_own' = Put(cfg_own, k, value)
                    /\ cfg_shared' = cfg_shared \ {k}
                    /\ cfg_ret' = [raised |-> "none", value |-> Leaf(None)]
                    /\ UNCHANGED cfg_default
               ELSE /\ cfg_ret' = [raised |-> r.raised, value |-> Leaf(None)]
                    /\ IF k \in cfg_shared
                       THEN /\ cfg_default' = [cfg_default EXCEPT ![k] = r.node]
                            /\ UNCHANGED <<cfg_own, cfg_shared>>
                       ELSE /\ cfg_own' = IF r.raised = "none"
                                          THEN Put(cfg_own, k, r.node)
                                          ELSE cfg_own
                            /\ UNCHANGED <<cfg_default, cfg_shared>>
    /\ UNCHANGED <<cfg_pc, cfg_file>>

\* Config.save_config(config): json.dump of self.config into the file; a
\* failure to write is printed and the call returns
SaveConfig ==
    \E written \in BOOLEAN :
        cfg_file' = IF written
                    THEN [exists |-> TRUE, valid |-> TRUE, json |-> ConfigValue']
                    ELSE cfg_file

\* Config.save()
ConfigSave ==
    /\ cfg_pc = "ready"
    /\ cfg_op' = [name |-> "save", keys |-> <<>>]
    /\ cfg_ret' = [raised |-> "none", value |-> Leaf(None)]
    /\ UNCHANGED <<cfg_pc, cfg_default, cfg_shared, cfg_own, cfg_sets>>
    /\ SaveConfig

\* Config.reset_to_defaults(): self.config = self._default_config.copy(),
\* then save()
ConfigReset ==
    /\ cfg_pc = "ready"
    /\ cfg_op' = [name |-> "reset_to_defaults", keys |-> <<>>]
    /\ cfg_ret' = [raised |-> "none", value |-> Leaf(None)]
    /\ cfg_shared' = DOMAIN cfg_default
    /\ cfg_own' = NoItems
    /\ UNCHANGED <<cfg_pc, cfg_default, cfg_sets>>
    /\ SaveConfig

\* no Config was built
ConfigUnbuilt ==
    /\ cfg_pc = "new"
    /\ cfg_default = BuiltinDefaults
    /\ cfg_shared = {}
    /\ cfg_own = NoItems
    /\ cfg_op = [name |-> "none", keys |-> <<>>]
    /\ cfg_ret = [raised |-> "none", value |-> Leaf(None)]
    /\ cfg_sets = 0

ConfigIdle ==
    /\ ConfigUnbuilt
    /\ cfg_file = [exists |-> FALSE, valid |-> FALSE, json |-> Leaf(None)]

(***************************************************************************)
(* One BackgroundRemover, built and then switched between models.          *)
(***************************************************************************)
VARIABLES
    rm,         \* the remover: NoRemover or [model_name, session]
    rm_before,  \* the remover as the last call found it
    rm_op,      \* the last call: [name, model_name]
    rm_ret      \* its outcome: [raised, attempts]

removerVars == <<rm, rm_before, rm_op, rm_ret>>

\* the model names passed by callers: the available ones and another
ModelNames == AvailableModels \cup {"nosuch"}

\* BackgroundRemover(model_name): when _initialize_model raises there is no
\* object
RemoverNew ==
    /\ rm = NoRemover
    /\ \E model_name \in ModelNames, ok \in BOOLEAN, fallback_ok \in BOOLEAN :
        LET r == NewRemover(model_name, ok, fallback_ok)
        IN  /\ rm_op' = [name |-> "new", model_name |-> model_name]
            /\ rm_ret' = [raised |-> r.raised, attempts |-> r.attempts]
            /\ rm' = IF r.raised THEN NoRemover
                     ELSE [model_name |-> r.model_name, session |-> r.session]
    /\ rm_before' = rm

\* remover.switch_model(model_name)
RemoverSwitch ==
    /\ rm # NoRemover
    /\ \E model_name \in ModelNames, ok \in BOOLEAN, fallback_ok \in BOOLEAN :
        LET r == SwitchModel(rm, model_name, ok, fallback_ok)
        IN  /\ rm_op' = [name |-> "switch_model", model_name |-> model_name]
            /\ rm_ret' = [raised |-> r.raised, attempts |-> r.attempts]
            /\ rm' = [model_name |-> r.model_name, session |-> r.session]
    /\ rm_before' = rm

RemoverIdle ==
    /\ rm = NoRemover
    /\ rm_before = NoRemover
    /\ rm_op = [name |-> "none", model_name |-> None]
    /\ rm_ret = [raised |-> FALSE, attempts |-> <<>>]

(***************************************************************************)
(* The cleanup sweep: cleanup_old_files of app/api/routes.py.  Time is     *)
(* counted in half hours.  An entry of UPLOAD_DIR or OUTPUT_DIR is         *)
(* [kind, mtime]: kind says what is_file() and unlink() see, mtime is the  *)
(* st_mtime that stat() gives (for a symbolic link, that of its target).   *)
(***************************************************************************)
VARIABLES
    sw_now,      \* the clock
    sw_dir,      \* the entries of the two directories, by name, or NoEntry
    sw_pc,       \* "unscheduled" | "sweeping" | "sleeping" | "stopped"
    sw_started,  \* datetime.now() of the last sweep
    sw_wake,     \* when the sleep of the last sweep ends
    sw_deleted,  \* the entries the last sweep unlinked
    sw_failed    \* whether a call of the last sweep raised

sweepVars == <<sw_now, sw_dir, sw_pc, sw_started, sw_wake, sw_deleted,
               sw_failed>>

\* the last instant of the runs examined
MaxTime == 5

\* timedelta(hours=1), in half hours
Retention == 2

\* asyncio.sleep(3600), in half hours
Interval == 2

NoEntry == [kind |-> None, mtime |-> 0]

\* the names in UPLOAD_DIR and in OUTPUT_DIR
UploadNames == {"u1"}
OutputNames == {"o1"}

\* a regular file, a directory, a symbolic link to a regular file
EntryKinds == {"file", "dir", "link"}

\* a mutant of Expired: a file exactly one hour old is deleted too
ExpiredOrAtCutoff(entry, cutoff_time) == entry.mtime <= cutoff_time

\* file_time < cutoff_time
Expired(entry, cutoff_time) == entry.mtime < cutoff_time

\* file_path.is_file(): a regular file or a symbolic link to one
IsFile(entry) == entry.kind \in {"file", "link"}

\* the names a sweep begun at time start unlinks when no call raises
Swept(start) ==
    {n \in UploadNames \cup OutputNames :
        /\ sw_dir[n] # NoEntry
        /\ IsFile(sw_dir[n])
        /\ Expired(sw_dir[n], start - Retention)}

\* a mutant of AfterSweepException: the exception ends the task
AfterSweepExceptionStop == "stopped"

\* except Exception: await asyncio.sleep(3600)
AfterSweepException == "sleeping"

\* cleanup_old_files() is started as a task
SweepStart ==
    /\ sw_pc = "unscheduled"
    /\ sw_pc' = "sweeping"
    /\ UNCHANGED <<sw_now, sw_dir, sw_started, sw_wake, sw_deleted, sw_failed>>

\* one pass of the try block, up to its await: UPLOAD_DIR then OUTPUT_DIR
\* are listed, in any order within a directory, and the expired files
\* unlinked until the pass ends or a call raises
SweepRun ==
    /\ sw_pc = "sweeping"
    /\ sw_started' = sw_now
    /\ sw_wake' = sw_now + Interval
    /\ \E failed \in BOOLEAN, gone \in SUBSET Swept(sw_now) :
        /\ ~ failed => gone = Swept(sw_now)
        /\ gone \cap OutputNames # {} => Swept(sw_now) \cap UploadNames \subseteq gone
        /\ sw_failed' = failed
        /\ sw_deleted' = {sw_dir[n] : n \in gone}
        /\ sw_dir' = [n \in DOMAIN sw_dir |->
                         IF n \in gone THEN NoEntry ELSE sw_dir[n]]
        /\ sw_pc' = IF failed THEN AfterSweepException ELSE "sleeping"
    /\ UNCHANGED sw_now

\* asyncio.sleep(3600) returns, not before the interval has passed, and the
\* loop starts over
SweepWake ==
    /\ sw_pc = "sleeping"
    /\ sw_now >= sw_wake
    /\ sw_pc' = "sweeping"
    /\ UNCHANGED <<sw_now, sw_dir, sw_started, sw_wake, sw_deleted, sw_failed>>

\* half an hour passes
Tick ==
    /\ sw_now < MaxTime
    /\ sw_now' = sw_now + 1
    /\ UNCHANGED <<sw_dir, sw_pc, sw_started, sw_wake, sw_deleted, sw_failed>>

\* an entry appears in one of the directories: an output file written by a
\* request, or anything put there from outside, with any modification time
EntryAppears ==
    /\ \E n \in UploadNames \cup OutputNames, kind \in EntryKinds,
          mtime \in 0..sw_now :
        /\ sw_dir[n] = NoEntry
        /\ sw_dir' = [sw_dir EXCEPT ![n] = [kind |-> kind, mtime |-> mtime]]
    /\ UNCHANGED <<sw_now, sw_pc, sw_started, sw_wake, sw_deleted, sw_failed>>

\* the directories are empty and nothing has started cleanup_old_files
SweepIdle ==
    /\ sw_now = 0
    /\ sw_dir = [n \in UploadNames \cup OutputNames |-> NoEntry]
    /\ sw_pc = "unscheduled"
    /\ sw_started = 0
    /\ sw_wake = 0
    /\ sw_deleted = {}
    /\ sw_failed = FALSE

vars == <<serverVars, batchVars, downloadVars, handlerVars, parseVars,
          removerBatchVars, singleVars, configVars, removerVars, sweepVars>>

ServerStarting ==
    /\ server = "starting"
    /\ app_remover = NoRemover

BatchIdle ==
    /\ next_uuid = 0
    /\ files = <<>>
    /\ batch_pc = "idle"
    /\ idx = 0
    /\ results = <<>>
    /\ batch_resp = NoResponse
    /\ calls = {}
    /\ raised = <<>>
    /\ item_sessions = {}

DownloadIdle ==
    /\ dl_filename = <<>>
    /\ dl_resp = NoResponse
    /\ fs_lookups = {}

HandlerIdle ==
    /\ background_remover = NoRemover
    /\ event = NoEvent
    /\ h_pc = "idle"
    /\ body = NoBody
    /\ image_data = NoText
    /\ h_resp = NoResponse
    /\ h_trace = {}

Init ==
    /\ ServerStarting
    /\ output_dir = {}
    /\ BatchIdle
    /\ DownloadIdle
    /\ HandlerIdle
    /\ ParseIdle
    /\ RemoverBatchIdle
    /\ SingleIdle
    /\ ConfigIdle
    /\ RemoverIdle
    /\ SweepIdle

\* the batch endpoint of the server
Next ==
    \/ Lifespan /\ UNCHANGED <<batchVars, downloadVars, handlerVars, parseVars,
                                 removerBatchVars, singleVars, configVars, removerVars, sweepVars>>
    \/ BatchStart /\ UNCHANGED <<serverVars, downloadVars, handlerVars, parseVars,
                        removerBatchVars, singleVars, configVars, removerVars, sweepVars>>
    \/ BatchNotImage /\ UNCHANGED <<serverVars, downloadVars, handlerVars, parseVars,
                        removerBatchVars, singleVars, configVars, removerVars, sweepVars>>
    \/ BatchRead /\ UNCHANGED <<serverVars, downloadVars, handlerVars, parseVars,
                        removerBatchVars, singleVars, configVars, removerVars, sweepVars>>
    \/ BatchProcess /\ UNCHANGED <<serverVars, downloadVars, handlerVars, parseVars,
                        removerBatchVars, singleVars, configVars, removerVars, sweepVars>>
    \/ BatchReturn /\ UNCHANGED <<serverVars, downloadVars, handlerVars, parseVars,
                        removerBatchVars, singleVars, configVars, removerVars, sweepVars>>

Spec == Init /\ [][Next]_vars

\* OUTPUT_DIR outlives the server: it may hold files of earlier runs
InitDownload ==
    /\ ServerStarting
    /\ output_dir \in SUBSET {OutputFilename(1), <<"a">>}
    /\ BatchIdle
    /\ DownloadIdle
    /\ HandlerIdle
    /\ ParseIdle
    /\ RemoverBatchIdle
    /\ SingleIdle
    /\ ConfigIdle
    /\ RemoverIdle
    /\ SweepIdle

\* the download endpoint of the server
NextDownload ==
    \/ Lifespan /\ UNCHANGED <<batchVars, downloadVars, handlerVars, parseVars,
                                 removerBatchVars, singleVars, configVars, removerVars, sweepVars>>
    \/ DownloadFile
          /\ UNCHANGED <<serverVars, next_uuid, files, batch_pc, idx, results,
                         batch_resp, calls, raised, item_sessions, handlerVars,
                         parseVars,
                         removerBatchVars, singleVars, configVars, removerVars, sweepVars>>

SpecDownload == InitDownload /\ [][NextDownload]_vars

\* the serverless function, invoked again and again in one container
NextHandler ==
    \/ HandlerDispatch /\ UNCHANGED <<serverVars, batchVars, downloadVars, parseVars,
                        removerBatchVars, singleVars, configVars, removerVars, sweepVars>>
    \/ HandlerExtract /\ UNCHANGED <<serverVars, batchVars, downloadVars, parseVars,
                        removerBatchVars, singleVars, configVars, removerVars, sweepVars>>
    \/ HandlerProcess /\ UNCHANGED <<serverVars, batchVars, downloadVars, parseVars,
                        removerBatchVars, singleVars, configVars, removerVars, sweepVars>>

SpecHandler == Init /\ [][NextHandler]_vars

\* parse_multipart_form_data applied to each body of ParseInput
InitParse ==
    /\ ServerStarting
    /\ output_dir = {}
    /\ BatchIdle
    /\ DownloadIdle
    /\ HandlerIdle
    /\ ParseInput
    /\ RemoverBatchIdle
    /\ SingleIdle
    /\ ConfigIdle
    /\ RemoverIdle
    /\ SweepIdle

NextParse ==
    ParseCall /\ UNCHANGED <<serverVars, batchVars, downloadVars, handlerVars,
                             removerBatchVars, singleVars, configVars, removerVars, sweepVars>>

SpecParse == InitParse /\ [][NextParse]_vars

\* one call of BackgroundRemover.batch_process
NextRemoverBatch ==
    \/ RemoverBatchStart
          /\ UNCHANGED <<serverVars, batchVars, downloadVars, handlerVars,
                         parseVars, singleVars, configVars, removerVars, sweepVars>>
    \/ RemoverBatchItem
          /\ UNCHANGED <<serverVars, batchVars, downloadVars, handlerVars,
                         parseVars, singleVars, configVars, removerVars, sweepVars>>
    \/ RemoverBatchReturn
          /\ UNCHANGED <<serverVars, batchVars, downloadVars, handlerVars,
                         parseVars, singleVars, configVars, removerVars, sweepVars>>

SpecRemoverBatch == Init /\ [][NextRemoverBatch]_vars

\* a Config built on any configuration file, then used
InitConfig ==
    /\ ServerStarting
    /\ output_dir = {}
    /\ BatchIdle
    /\ DownloadIdle
    /\ HandlerIdle
    /\ ParseIdle
    /\ RemoverBatchIdle
    /\ SingleIdle
    /\ ConfigUnbuilt
    /\ cfg_file \in ConfigFiles
    /\ RemoverIdle
    /\ SweepIdle

NextConfig ==
    \/ ConfigLoad
          /\ UNCHANGED <<serverVars, batchVars, downloadVars, handlerVars,
                         parseVars, removerBatchVars, singleVars, removerVars, sweepVars>>
    \/ ConfigGet
          /\ UNCHANGED <<serverVars, batchVars, downloadVars, handlerVars,
                         parseVars, removerBatchVars, singleVars, removerVars, sweepVars>>
    \/ ConfigSet
          /\ UNCHANGED <<serverVars, batchVars, downloadVars, handlerVars,
                         parseVars, removerBatchVars, singleVars, removerVars, sweepVars>>
    \/ ConfigSave
          /\ UNCHANGED <<serverVars, batchVars, downloadVars, handlerVars,
                         parseVars, removerBatchVars, singleVars, removerVars, sweepVars>>
    \/ ConfigReset
          /\ UNCHANGED <<serverVars, batchVars, downloadVars, handlerVars,
                         parseVars, removerBatchVars, singleVars, removerVars, sweepVars>>

SpecConfig == InitConfig /\ [][NextConfig]_vars

\* a remover built and switched again and again
NextRemover ==
    \/ RemoverNew
          /\ UNCHANGED <<serverVars, batchVars, downloadVars, handlerVars,
                         parseVars, removerBatchVars, singleVars, configVars, sweepVars>>
    \/ RemoverSwitch
          /\ UNCHANGED <<serverVars, batchVars, downloadVars, handlerVars,
                         parseVars, removerBatchVars, singleVars, configVars, sweepVars>>

SpecRemover == Init /\ [][NextRemover]_vars

\* cleanup_old_files run as a task beside what changes the directories
NextSweep ==
    \/ SweepStart
          /\ UNCHANGED <<serverVars, batchVars, downloadVars, handlerVars,
                         parseVars, removerBatchVars, singleVars, configVars,
                         removerVars>>
    \/ SweepRun
          /\ UNCHANGED <<serverVars, batchVars, downloadVars, handlerVars,
                         parseVars, removerBatchVars, singleVars, configVars,
                         removerVars>>
    \/ SweepWake
          /\ UNCHANGED <<serverVars, batchVars, downloadVars, handlerVars,
                         parseVars, removerBatchVars, singleVars, configVars,
                         removerVars>>
    \/ Tick
          /\ UNCHANGED <<serverVars, batchVars, downloadVars, handlerVars,
                         parseVars, removerBatchVars, singleVars, configVars,
                         removerVars>>
    \/ EntryAppears
          /\ UNCHANGED <<serverVars, batchVars, downloadVars, handlerVars,
                         parseVars, removerBatchVars, singleVars, configVars,
                         removerVars>>

SpecSweep == Init /\ [][NextSweep]_vars

\* the server as main.py starts it: the lifespan builds the remover, files
\* appear in the directories and time passes; nothing starts
\* cleanup_old_files
NextHousekeeping ==
    \/ Lifespan
          /\ UNCHANGED <<batchVars, downloadVars, handlerVars, parseVars,
                         removerBatchVars, singleVars, configVars,
                         removerVars, sweepVars>>
    \/ server = "serving" /\ EntryAppears
          /\ UNCHANGED <<serverVars, batchVars, downloadVars, handlerVars,
                         parseVars, removerBatchVars, singleVars, configVars,
                         removerVars>>
    \/ Tick
          /\ UNCHANGED <<serverVars, batchVars, downloadVars, handlerVars,
                         parseVars, removerBatchVars, singleVars, configVars,
                         removerVars>>

\* the clock goes on
SpecHousekeeping ==
    Init /\ [][NextHousekeeping]_vars /\ WF_sw_now(Tick)

\* the single-image endpoint, serving concurrent requests
NextSingle ==
    \/ Lifespan /\ UNCHANGED <<batchVars, downloadVars, handlerVars, parseVars,
                                 removerBatchVars, singleVars, configVars, removerVars, sweepVars>>
    \/ \E t \in Tasks : SingleStart(t)
          /\ UNCHANGED <<server, batchVars, downloadVars, handlerVars,
                         parseVars, removerBatchVars, configVars, removerVars, sweepVars>>
    \/ \E t \in Tasks : SingleRead(t)
          /\ UNCHANGED <<server, batchVars, downloadVars, handlerVars,
                         parseVars, removerBatchVars, configVars, removerVars, sweepVars>>
    \/ \E t \in Tasks : SingleSwitch(t)
          /\ UNCHANGED <<server, batchVars, downloadVars, handlerVars,
                         parseVars, removerBatchVars, configVars, removerVars, sweepVars>>
    \/ \E t \in Tasks : SingleInferBegin(t)
          /\ UNCHANGED <<server, batchVars, downloadVars, handlerVars,
                         parseVars, removerBatchVars, configVars, removerVars, sweepVars>>
    \/ \E t \in Tasks : SingleInferEnd(t)
          /\ UNCHANGED <<server, batchVars, downloadVars, handlerVars,
                         parseVars, removerBatchVars, configVars, removerVars, sweepVars>>

SpecSingle == Init /\ [][NextSingle]_vars

\* the batches sent while single-image requests are served
SharedBatches == SeqsUpTo({[filename |-> "a.png", content_type |-> ImagePng]}, 2)

\* the single-image requests sent while batches are served: image uploads
\* of unknown size, for each model name
SharedRequests ==
    {req \in SingleRequests : req.content_type = ImagePng /\ req.size = NoSize}

\* the server with its single-image and batch endpoints on one event loop:
\* a batch handler is resumed only when no other handler holds the loop
NextServer ==
    \/ Lifespan /\ UNCHANGED <<batchVars, downloadVars, handlerVars, parseVars,
                                 removerBatchVars, singleVars, configVars, removerVars, sweepVars>>
    \/ \E t \in Tasks : SingleStartWith(t, SharedRequests)
          /\ UNCHANGED <<server, batchVars, downloadVars, handlerVars,
                         parseVars, removerBatchVars, configVars, removerVars, sweepVars>>
    \/ \E t \in Tasks : SingleRead(t)
          /\ UNCHANGED <<server, batchVars, downloadVars, handlerVars,
                         parseVars, removerBatchVars, configVars, removerVars, sweepVars>>
    \/ \E t \in Tasks : SingleSwitch(t)
          /\ UNCHANGED <<server, batchVars, downloadVars, handlerVars,
                         parseVars, removerBatchVars, configVars, removerVars, sweepVars>>
    \/ \E t \in Tasks : SingleInferBegin(t)
          /\ UNCHANGED <<server, batchVars, downloadVars, handlerVars,
                         parseVars, removerBatchVars, configVars, removerVars, sweepVars>>
    \/ \E t \in Tasks : SingleInferEnd(t)
          /\ UNCHANGED <<server, batchVars, downloadVars, handlerVars,
                         parseVars, removerBatchVars, configVars, removerVars, sweepVars>>
    \/ running = "none" /\ BatchStartWith(SharedBatches)
          /\ UNCHANGED <<serverVars, downloadVars, handlerVars, parseVars,
                         removerBatchVars, singleVars, configVars, removerVars, sweepVars>>
    \/ running = "none" /\ BatchRead
          /\ UNCHANGED <<serverVars, downloadVars, handlerVars, parseVars,
                         removerBatchVars, singleVars, configVars, removerVars, sweepVars>>
    \/ running = "none" /\ BatchProcess
          /\ UNCHANGED <<serverVars, downloadVars, handlerVars, parseVars,
                         removerBatchVars, singleVars, configVars, removerVars, sweepVars>>
    \/ running = "none" /\ BatchReturn
          /\ UNCHANGED <<serverVars, downloadVars, handlerVars, parseVars,
                         removerBatchVars, singleVars, configVars, removerVars, sweepVars>>

SpecServer == Init /\ [][NextServer]_vars

(***************************************************************************)
(* Claims about the batch endpoint.                                        *)
(***************************************************************************)
\* the batch was accepted: the service was ready and the list short enough
BatchAccepted == batch_pc # "idle" /\ Len(files) <= 5

\* file declares a content type that starts with "image/"
DeclaresImage(file) ==
    /\ file.content_type # NoText
    /\ Len(file.content_type) >= 6
    /\ \A k \in 1..6 : file.content_type[k] = ImagePrefix[k]

\* C1: for a batch of at most 5 files the results hold one record per file
\* handled so far, record i carries the filename of file i and a status that
\* is 'success' or 'error'; the response returns one record for every file.
BatchOneRecordPerFile ==
    BatchAccepted =>
        /\ Len(results) <= Len(files)
        /\ \A i \in 1..Len(results) :
            /\ results[i].original_filename = files[i].filename
            /\ results[i].status \in {"success", "error"}
        /\ batch_pc \in {"loop", "process"} => Len(results) = idx - 1
        /\ batch_pc = "done" =>
            /\ batch_resp.status = 200
            /\ batch_resp.results = results
            /\ Len(results) = Len(files)

\* C1 witness: a full batch answered with failed and successful items mixed
BatchOneRecordPerFileWitness ==
    /\ batch_pc = "done"
    /\ Len(files) = 5
    /\ batch_resp.status = 200
    /\ files[1].filename # files[2].filename
    /\ \E i, j \in 1..5 : raised[i] # "none" /\ results[j].status = "success"

\* C2: an exception raised for item i gives item i the 'error' record with
\* the exception's message, the request still ends with the 200 response
\* holding a record for every file, and every other item has the record its
\* own content type and its own calls give it.
BatchFailureIsolated ==
    BatchAccepted =>
        /\ \A i \in 1..Len(results) :
            /\ raised[i] # "none" =>
                results[i] = [original_filename |-> files[i].filename,
                              status |-> "error",
                              error |-> ExcMessage(raised[i])]
            /\ (raised[i] = "none" /\ DeclaresImage(files[i])) =>
                /\ results[i].status = "success"
                /\ {<<op, i>> : op \in {"read", "open", "segment", "save"}}
                       \subseteq calls
        /\ batch_pc \in {"loop", "process"} => Len(results) = idx - 1
        /\ batch_pc = "done" =>
            /\ batch_resp.status = 200
            /\ Len(batch_resp.results) = Len(files)

\* C2 witness: a failed item between two successful ones
BatchFailureIsolatedWitness ==
    /\ batch_pc = "done"
    /\ Len(files) \in 3..5
    /\ \E i, j, k \in 1..Len(files) :
        /\ i < j /\ j < k
        /\ results[i].status = "success"
        /\ raised[j] \in {"read", "open", "segment", "save"}
        /\ results[k].status = "success"

\* C3: an item whose content type is missing or does not start with
\* "image/" gets the error record "Not an image file" and none of read,
\* open, segment, save is called for it; every other item whose calls all
\* succeed gets a 'success' record.
BatchNotImageRecorded ==
    BatchAccepted =>
        /\ \A i \in 1..Len(files) :
            ~ DeclaresImage(files[i]) =>
                \A op \in {"read", "open", "segment", "save"} :
                    <<op, i>> \notin calls
        /\ \A i \in 1..Len(results) :
            IF DeclaresImage(files[i])
            THEN raised[i] = "none" => results[i].status = "success"
            ELSE results[i] = [original_filename |-> files[i].filename,
                               status |-> "error",
                               error |-> "Not an image file"]
        /\ batch_pc = "done" => Len(results) = Len(files)

\* C3 witness: one item that is no image among four that succeed
BatchNotImageRecordedWitness ==
    /\ batch_pc = "done"
    /\ Len(files) = 5
    /\ Cardinality({i \in 1..5 : ~ DeclaresImage(files[i])}) = 1
    /\ Cardinality({i \in 1..5 : results[i].status = "error"}) = 1
    /\ Cardinality({i \in 1..5 : results[i].status = "success"}) = 4
    /\ \E i \in 1..5 : results[i].status = "error"
                          /\ results[i].error = "Not an image file"

\* C4: a batch of more than 5 files is answered 400 at once: no file is
\* read, nothing is segmented, no output file is written, no record made.
BatchTooManyRejected ==
    (batch_pc # "idle" /\ Len(files) > 5) =>
        /\ batch_pc = "done"
        /\ batch_resp = [status |-> 400, detail |-> "Maximum 5 files allowed"]
        /\ calls = {}
        /\ output_dir = {}
        /\ next_uuid = 0
        /\ results = <<>>

\* C4 witness: a batch of six images was rejected
BatchTooManyRejectedWitness ==
    /\ batch_pc = "done"
    /\ Len(files) = 6
    /\ \A i \in 1..6 : DeclaresImage(files[i])
    /\ batch_resp.status = 400

(***************************************************************************)
(* Claims about the download endpoint.                                     *)
(***************************************************************************)
\* name holds "..", "/" or a backslash
HasTraversal(name) ==
    \/ \E k \in 1..Len(name) : name[k] \in {"/", "\\"}
    \/ \E k \in 1..(Len(name) - 1) : name[k] = "." /\ name[k + 1] = "."

\* C10: a filename holding "..", "/" or a backslash is answered 400 and is
\* not resolved against the output directory; only names free of them are
\* resolved, and a resolved name that does not exist is answered 404.
DownloadRejectsTraversal ==
    /\ \A name \in fs_lookups : ~ HasTraversal(name)
    /\ dl_resp # NoResponse =>
        /\ HasTraversal(dl_filename) =>
            /\ dl_resp.status = 400
            /\ fs_lookups = {}
        /\ ~ HasTraversal(dl_filename) =>
            /\ fs_lookups = {dl_filename}
            /\ dl_filename \notin output_dir => dl_resp.status = 404
            /\ dl_filename \in output_dir => dl_resp.status = 200

\* C10 witness: a name with a backslash in it was refused
DownloadRejectsTraversalWitness ==
    /\ dl_resp # NoResponse
    /\ dl_resp.status = 400
    /\ \E k \in 1..Len(dl_filename) : dl_filename[k] = "\\"
    /\ ~ \E k \in 1..Len(dl_filename) : dl_filename[k] \in {"/", "."}
    /\ output_dir # {}

(***************************************************************************)
(* Claims about BackgroundRemover.batch_process.                           *)
(***************************************************************************)
\* C5: with a callback supplied, the callback is called exactly once after
\* each item, in item order, with (completed_count, total_count, name),
\* whether the item succeeded or failed.
RemoverBatchProgressEveryItem ==
    (rb_pc = "done" /\ rb_callback) =>
        progress = [k \in 1..Len(image_files) |->
                        <<k, Len(image_files), image_files[k]>>]

(***************************************************************************)
(* Claims about parse_multipart_form_data.                                 *)
(***************************************************************************)
\* C6: for the body '--B CRLF headers CRLF CRLF payload CRLF --B--' and a
\* payload that does not hold the delimiter '--B', the value returned is the
\* payload exactly, a payload that ends in CRLF keeping its CRLF.
ParseReturnsPayload ==
    (/\ parse_pc = "returned"
     /\ ~ Contains(parse_payload, <<"-", "-">> \o parse_boundary)) =>
        parse_result = parse_payload

\* C6 witness: a payload ending in CRLF came back whole
ParseReturnsPayloadWitness ==
    /\ parse_pc = "returned"
    /\ parse_payload = <<"x", "-", CR, LF>>
    /\ parse_boundary = <<"-", "B">>
    /\ parse_result = parse_payload

(***************************************************************************)
(* Claims about the serverless handler.                                    *)
(***************************************************************************)
\* the bytes of the body of the request: decoded when the event says base64
RequestBytes ==
    IF event.isBase64Encoded THEN B64Decode(event.body)
    ELSE Utf8Encode(event.body)

\* data begins with FF D8 FF, with 89 'PNG' or with 'RIFF'
BeginsWithSignature(data) ==
    /\ data # NoText
    /\ \E sig \in {<<"xFF", "xD8", "xFF">>, <<"x89", "P", "N", "G">>,
                   <<"R", "I", "F", "F">>} :
        /\ Len(data) >= Len(sig)
        /\ \A k \in 1..Len(sig) : data[k] = sig[k]

\* the content type of the request holds 'multipart/form-data'
DeclaredMultipart ==
    \E k \in 0..(Len(event.content_type) - Len(MultipartFormData)) :
        \A j \in 1..Len(MultipartFormData) :
            event.content_type[k + j] = MultipartFormData[j]

\* C7 as claimed: every POST body that begins with an image signature is
\* used whole as the image data and part extraction is never called for it.
HandlerSignatureBodyUsedWhole ==
    (event.httpMethod = "POST" /\ BeginsWithSignature(RequestBytes)) =>
        /\ "parse" \notin h_trace
        /\ "extract" \in h_trace => image_data = RequestBytes

\* C7 as amended: the same for the requests whose content type does not
\* hold 'multipart/form-data'; such a request is never answered 400.
HandlerSignatureBodyUsedWholeUnlessMultipart ==
    (/\ event.httpMethod = "POST"
     /\ ~ DeclaredMultipart
     /\ BeginsWithSignature(RequestBytes)) =>
        /\ "parse" \notin h_trace
        /\ "extract" \in h_trace =>
            /\ image_data = RequestBytes
            /\ body = [type |-> "bytes", data |-> RequestBytes]
            /\ h_pc \in {"process", "done"}
            /\ h_pc = "done" => h_resp.statusCode \in {200, 500}

\* C7 witness: a RIFF body sent as text was taken whole and processed
HandlerSignatureBodyUsedWholeWitness ==
    /\ h_pc = "done"
    /\ event.httpMethod = "POST"
    /\ event.content_type = ImageJpeg
    /\ event.body = RiffText
    /\ ~ event.isBase64Encoded
    /\ image_data = RiffText
    /\ h_resp.statusCode = 200

HandlerMethodGate ==
    [][(h_pc \in {"idle", "done"} /\ event'.httpMethod # "POST") =>
           /\ h_pc' = "done"
           /\ event'.httpMethod = "OPTIONS" =>
                  h_resp' = [statusCode |-> 200, headers |-> CorsHeaders,
                             body |-> <<>>]
           /\ event'.httpMethod # "OPTIONS" =>
                  /\ h_resp'.statusCode = 405
                  /\ h_resp'.headers = CorsHeaders
           /\ background_remover' = background_remover
           /\ h_trace' = {}
           /\ body' = NoBody
           /\ image_data' = NoText]_vars

\* C9 witness: a GET carrying a base64 image was answered 405 in a container
\* whose remover was never built
HandlerMethodGateWitness ==
    /\ h_pc = "done"
    /\ event.httpMethod = "GET"
    /\ event.isBase64Encoded
    /\ event.body = JpegBase64
    /\ h_resp.statusCode = 405
    /\ background_remover = NoRemover
    /\ h_trace = {}

(***************************************************************************)
(* Claims about the single-image endpoint.                                 *)
(***************************************************************************)
\* C11: a single-image request is answered 400 when the upload does not
\* declare an image, 413 when its declared size is above 10 MB, 400 when the
\* uploaded file is empty and 400 when the decoded image is wider or higher
\* than 4096, each time without a call of remove_background (the 503 of a
\* service that is not ready cannot happen once the lifespan has started the
\* server).
SingleWholeRequestFailures ==
    \A t \in Tasks :
        single_pc[t] = "done" =>
            /\ ~ IsImageUpload(single_req[t]) =>
                   /\ single_resp[t].status = 400
                   /\ "segment" \notin single_calls[t]
            /\ IsImageUpload(single_req[t])
                   /\ single_req[t].size > MaxUploadBytes =>
                   /\ single_resp[t].status = 413
                   /\ "segment" \notin single_calls[t]
            /\ single_seen[t] = "empty" =>
                   /\ single_resp[t].status = 400
                   /\ "segment" \notin single_calls[t]
            /\ single_seen[t] \in {"too wide", "too high"} =>
                   /\ single_resp[t].status = 400
                   /\ "segment" \notin single_calls[t]

(***************************************************************************)
(* Claims about Config.                                                    *)
(***************************************************************************)
\* the absence of a node
Missing == [missing |-> TRUE]

\* the node found under the dotted path keys of the JSON value config, or
\* Missing when a segment is not a key of the value reached before it or
\* that value is not a mapping
RECURSIVE NodeAt(_, _)
NodeAt(config, keys) ==
    IF keys = <<>> THEN config
    ELSE LET parent == NodeAt(config, SubSeq(keys, 1, Len(keys) - 1))
             last == keys[Len(keys)]
         IN  IF DOMAIN parent = {"dict"} /\ last \in DOMAIN parent.dict
             THEN parent.dict[last]
             ELSE Missing

\* C12: Config.get never raises; it returns the value found by descending the
\* configuration one segment of the dotted key at a time, and the caller's
\* default when a segment is missing or the value reached before it is not a
\* mapping.
ConfigGetDescendsOrDefault ==
    cfg_op.name = "get" =>
        /\ cfg_ret.raised = "none"
        /\ cfg_ret.value = IF NodeAt(ConfigValue, cfg_op.keys) = Missing
                           THEN Leaf("caller default")
                           ELSE NodeAt(ConfigValue, cfg_op.keys)

\* C12 witness: get("models.default.extra") found the string of
\* "models.default" where a mapping was needed and returned the default
ConfigGetDescendsOrDefaultWitness ==
    /\ cfg_op = [name |-> "get", keys |-> <<"models", "default", "extra">>]
    /\ NodeAt(ConfigValue, <<"models", "default">>) = Leaf("u2net")
    /\ cfg_ret = [raised |-> "none", value |-> Leaf("caller default")]

\* the dotted paths over the keys of the defaults and of the files
MergePaths ==
    SeqsUpTo({"models", "web", "default", "cache_dir", "port", "extra"}, 3)
        \ {<<>>}

\* the file holds a value that is not a mapping somewhere above the path keys
FileReplacesAbove(keys) ==
    \E n \in 1..(Len(keys) - 1) :
        DOMAIN NodeAt(cfg_file.json, SubSeq(keys, 1, n)) = {"leaf"}

\* C13: after a configuration file holding a JSON object was loaded, at every
\* nesting level the file's value stands where the file has one (a key the
\* defaults do not know included), and a default the file does not mention is
\* there with its built-in value.
ConfigLoadMergesWithDefaults ==
    (cfg_op.name = "load" /\ cfg_file.valid /\ IsDict(cfg_file.json)) =>
        \A keys \in MergePaths :
            LET in_file == NodeAt(cfg_file.json, keys)
                in_defaults == NodeAt(Dict(BuiltinDefaults), keys)
                merged == NodeAt(ConfigValue, keys)
            IN  /\ DOMAIN in_file = {"leaf"} => merged = in_file
                /\ (in_file # Missing /\ DOMAIN in_defaults # {"dict"}) =>
                       merged = in_file
                /\ (in_file = Missing /\ in_defaults # Missing
                        /\ ~ FileReplacesAbove(keys)) =>
                       merged = in_defaults

\* C13 witness: a file that sets models.default and the unknown models.extra
\* was loaded; both are in the configuration beside the default
\* models.cache_dir and the default section web
ConfigLoadMergesWithDefaultsWitness ==
    /\ cfg_op.name = "load"
    /\ cfg_file.valid
    /\ NodeAt(cfg_file.json, <<"models", "default">>) = Leaf("silueta")
    /\ NodeAt(cfg_file.json, <<"models", "extra">>) = Leaf("silueta")
    /\ NodeAt(cfg_file.json, <<"web">>) = Missing
    /\ NodeAt(ConfigValue, <<"models", "default">>) = Leaf("silueta")
    /\ NodeAt(ConfigValue, <<"models", "extra">>) = Leaf("silueta")
    /\ NodeAt(ConfigValue, <<"models", "cache_dir">>) = Leaf("config/models")
    /\ NodeAt(ConfigValue, <<"web", "port">>) = Leaf("8000")

\* C20: after reset_to_defaults the active configuration is the built-in
\* defaults, whatever was loaded, set or saved before.
ConfigResetRestoresDefaults ==
    cfg_op.name = "reset_to_defaults" => ConfigValue = Dict(BuiltinDefaults)

(***************************************************************************)
(* Claims about the remover shared by the endpoints.                       *)
(***************************************************************************)
\* C14: whatever the interleaving of single-image and batch requests, a step
\* in which switch_model is called finds no remove_background call of
\* another request in progress, and a step in which the batch endpoint calls
\* remove_background neither switches the model nor runs beside the call of
\* a single-image request.
NoSwitchDuringInference ==
    [][/\ \A t \in Tasks :
             ("switch" \in single_calls'[t] /\ "switch" \notin single_calls[t])
                 => inflight = {}
       /\ calls' # calls =>
             /\ inflight = {}
             /\ app_remover' = app_remover]_vars

\* C14 witness: request s1 switched the model and its remove_background call
\* is in progress while request s2, which asks for another model, and a
\* batch both wait to be resumed
NoSwitchDuringInferenceWitness ==
    /\ single_pc["s1"] = "inferring"
    /\ "switch" \in single_calls["s1"]
    /\ inflight = {"s1"}
    /\ single_pc["s2"] = "read"
    /\ single_req["s2"].model # app_remover.model_name
    /\ batch_pc = "process"

\* C15: when new_session fails for the selected model, _initialize_model
\* calls it exactly once more, for "u2net"; when that call succeeds no error
\* is raised and the remover holds model_name "u2net" with the session made
\* for it, and when it fails the error is raised.
InitializeFallsBackOnce ==
    (Len(rm_ret.attempts) > 0 /\ ~ rm_ret.attempts[1].ok) =>
        /\ Len(rm_ret.attempts) = 2
        /\ rm_ret.attempts[2].model = "u2net"
        /\ rm_ret.attempts[2].ok =>
               /\ ~ rm_ret.raised
               /\ rm = [model_name |-> "u2net", session |-> "u2net"]
        /\ ~ rm_ret.attempts[2].ok => rm_ret.raised

\* C15 witness: a remover on u2netp was switched to silueta, the session of
\* silueta could not be made and the one of u2net could
InitializeFallsBackOnceWitness ==
    /\ rm_op = [name |-> "switch_model", model_name |-> "silueta"]
    /\ rm_before = [model_name |-> "u2netp", session |-> "u2netp"]
    /\ rm_ret.attempts = <<[model |-> "silueta", ok |-> FALSE],
                           [model |-> "u2net", ok |-> TRUE]>>
    /\ rm = [model_name |-> "u2net", session |-> "u2net"]
    /\ ~ rm_ret.raised

\* the boundary token of the request: what follows "boundary=" in the content
\* type, without the surrounding blanks; empty when the parameter is absent
BoundaryToken ==
    IF Contains(event.content_type, BoundaryParam)
    THEN Strip(Split(event.content_type, BoundaryParam)[2])
    ELSE <<>>

\* C16: for a request with a multipart content type whose boundary parameter
\* is absent or empty, parse_multipart_form_data is not called.
HandlerParsesOnlyWithBoundary ==
    (h_pc \in {"process", "done"} /\ "extract" \in h_trace
         /\ DeclaredMultipart /\ BoundaryToken = <<>>) =>
        "parse" \notin h_trace

(***************************************************************************)
(* Claims about the cleanup sweep.                                         *)
(***************************************************************************)
\* C17: once the server is serving, every regular file of the upload or
\* output directory that is more than one hour old is eventually deleted.
OldFilesEventuallySwept ==
    \A n \in UploadNames \cup OutputNames :
        (/\ server = "serving"
         /\ sw_dir[n].kind = "file"
         /\ sw_now - sw_dir[n].mtime > Retention)
            ~> (sw_dir[n] = NoEntry)

\* C18: a sweep, failed or not, is followed by a sleep of one interval begun
\* when the sweep began, and the sleep is followed, once the interval has
\* passed, by the next sweep; the loop never ends.
SweepLoopGoesOn ==
    [][/\ (sw_pc = "sweeping" /\ sw_pc' # sw_pc) =>
              /\ sw_pc' = "sleeping"
              /\ sw_wake' = sw_now + Interval
       /\ (sw_pc = "sleeping" /\ sw_pc' # sw_pc) =>
              /\ sw_pc' = "sweeping"
              /\ sw_now >= sw_wake]_vars

\* C18 witness: a sweep in which a call raised was followed by its sleep,
\* and the next sweep is starting
SweepLoopGoesOnWitness ==
    /\ sw_pc = "sweeping"
    /\ sw_failed
    /\ sw_wake = sw_started + Interval
    /\ sw_now >= sw_wake

RemoverSessionMatchesModel ==
    rm # NoRemover => rm.session = rm.model_name

\* C23: switch_model called with a name that is not among the available
\* models raises, makes no new_session call, and leaves both model_name and
\* the session as they were before the call.
SwitchToUnknownChangesNothing ==
    (rm_op.name = "switch_model" /\ rm_op.model_name \notin AvailableModels)
        => /\ rm_ret.raised
           /\ rm_ret.attempts = <<>>
           /\ rm = rm_before

\* a built remover on a model other than the default was asked for a name
\* that is not available
SwitchToUnknownChangesNothingWitness ==
    /\ rm_op.name = "switch_model"
    /\ rm_op.model_name = "nosuch"
    /\ rm_before # NoRemover
    /\ rm_before.model_name = "silueta"

(***************************************************************************)
(* Claims about the shared remover of the web server.                      *)
(***************************************************************************)

\* C22: all items of one batch request are segmented with the same model
\* session, even when single-image requests that switch the model run on the
\* same server between the items.
BatchUsesOneSession ==
    \A a \in item_sessions, b \in item_sessions : a[2] = b[2]

(***************************************************************************)
(* Claims about what BackgroundRemover.batch_process returns.              *)
(***************************************************************************)

\* item k was segmented and saved: neither remove_background nor save raised
SegmentedAndSaved(k) == rb_raised[k] \in {"none", "callback"}

\* the output paths of the items among the first n that were segmented and
\* saved, in the order of image_files
RECURSIVE SavedPaths(_)
SavedPaths(n) ==
    IF n = 0 THEN <<>>
    ELSE IF SegmentedAndSaved(n)
         THEN Append(SavedPaths(n - 1), OutputPath(image_files[n]))
         ELSE SavedPaths(n - 1)

\* C24: batch_process over a folder returns the output paths of exactly the
\* items whose segmentation and save succeeded, in the order the items were
\* listed: a failed item adds no entry, and every item after it is still
\* processed.
RemoverBatchReturnsSavedPaths ==
    /\ rb_pc = "loop" => processed_files = SavedPaths(rb_i)
    /\ rb_pc = "done" => /\ rb_i = Len(image_files)
                         /\ processed_files = SavedPaths(Len(image_files))

\* a batch returned in which the first item failed and a later one succeeded
RemoverBatchReturnsSavedPathsWitness ==
    /\ rb_pc = "done"
    /\ Len(image_files) >= 2
    /\ rb_raised[1] \in {"segment", "save"}
    /\ rb_raised[2] = "none"
    /\ processed_files = <<OutputPath(image_files[2])>>

=============================================================================
